---- MODULE Spec2Model ----
(***************************************************************************)
(* Model of pyhydra/adml_classification.py: the four single-scale entry    *)
(* points (classification_roi, classification_roi_feature_selection,       *)
(* classification_voxel, classification_voxel_feature_selection) and the   *)
(* multi-scale orchestrator classification_multiscale_opnmf.               *)
(*                                                                         *)
(* The program state is the content of the output directories: persisted   *)
(* partition files, summary artifacts, created directories and the         *)
(* intermediate per-scale tables.  `last` records what the last            *)
(* single-scale call did, `ms` the progress of a multi-scale run.          *)
(***************************************************************************)
EXTENDS Integers, Sequences, FiniteSets, TLC

VARIABLES pkl, summary, dirs, inter, last, ncalls, ms

vars == <<pkl, summary, dirs, inter, last, ncalls, ms>>

\* ---------------------------------------------------------------- bounds
MaxCalls == 2
MaxLen == 2
MaxRandom == 2

\* ---------------------------------------------------------------- inputs
Scales == {2, 3}
Reps == {2, 3}
NoSeed == 0 - 1
Seeds == {NoSeed, 0}
Strategies == {"hold_out", "k_fold", "leave_one_out"}
VotingMethods == {"hard_voting", "soft_voting", "consensus_voting", "majority"}

\* os.path.join(output_dir, 'component_' + str(i))
CompDir(i) == <<"component", i>>

OutputDirs == {CompDir(i) : i \in Scales}

\* the output_dir the single-scale entry points are called on
CallDirs == {CompDir(2)}

\* what an unseeded random generator may produce
RandomOutcomes == {100 + k : k \in 1..MaxRandom}

\* the generator outcomes a call with this seed can see
Entropy(seed) == IF seed = NoSeed THEN RandomOutcomes ELSE {0}

\* 'data_split_stratified_<cv_repetition>-holdout.pkl' and its k-fold sibling
PklName(cv_strategy, cv_repetition) == <<cv_strategy, cv_repetition>>

PklNames == {PklName(s, r) : s \in {"hold_out", "k_fold"}, r \in Reps}

Row(p, d, f) == [participant_id |-> p, diagnosis |-> d, feat |-> f]

\* feature tables handed to the single-scale entry points
FeatureTables ==
  { << Row(1, 0, 11), Row(2, 1, 12), Row(3, 1, 13), Row(4, 0, 14) >>,
    << Row(1, 1, 21), Row(2, 1, 22), Row(3, 0, 23), Row(4, 0, 24) >> }

\* ------------------------------------------------- external collaborators
\* RB_Input(feature_tsv) / VB_Input(participant_tsv): the table as read
RB_Input(feature_tsv) == [rows |-> feature_tsv]

VB_Input(participant_tsv) == [rows |-> participant_tsv]

\* input_data.get_y(): the diagnosis column
get_y(input_data) ==
  [k \in 1..Len(input_data.rows) |-> input_data.rows[k].diagnosis]

\* the PartitionSet generated for (labels, strategy, repetitionCount, seed)
Partition(y, cv_strategy, cv_repetition, draw) ==
  [strategy |-> cv_strategy, rep |-> cv_repetition, y |-> y, draw |-> draw]

\* make_cv_partition(diagnosis, cv_strategy, output_dir, cv_repetition, seed)
\* files is the content of output_dir; rnd what an unseeded generator yields
make_cv_partition(files, y, cv_strategy, cv_repetition, seed, rnd) ==
  IF cv_strategy \notin {"hold_out", "k_fold"}
  THEN [raised |-> TRUE, split |-> <<>>, files |-> files, wrote |-> {}]
  ELSE LET name == PklName(cv_strategy, cv_repetition) IN
       IF files[name] # <<>>
       THEN [raised |-> FALSE, split |-> files[name], files |-> files,
             wrote |-> {}]
       ELSE LET p == Partition(y, cv_strategy, cv_repetition,
                               IF seed = NoSeed THEN rnd ELSE seed) IN
            [raised |-> FALSE, split |-> <<p>>,
             files |-> [files EXCEPT ![name] = <<p>>], wrote |-> {name}]

\* a constructed workflow: its kind, its partition and its iteration count
Workflow(kind, input_data, split_index, n) ==
  [kind |-> kind, y |-> get_y(input_data), split_index |-> split_index,
   n |-> n]

\* ------------------------------------------------ single-scale entry points
\* a data split that regenerates the partition without looking for the file
DataSplitAlwaysMake(files, input_data, cv_repetition, cv_strategy, seed, rnd) ==
  LET r == make_cv_partition(files, get_y(input_data), cv_strategy,
                             cv_repetition, seed, rnd) IN
  [raised |-> r.raised, existed |-> FALSE, loaded |-> <<>>,
   split |-> r.split,
   mcp |-> << [y |-> get_y(input_data), cv_strategy |-> cv_strategy,
               cv_repetition |-> cv_repetition, seed |-> seed,
               raised |-> r.raised, result |-> r.split] >>,
   files |-> r.files, wrote |-> r.wrote]

\* lines 46-49 and their copies: load the persisted partition or make one
DataSplit(files, input_data, cv_repetition, cv_strategy, seed, rnd) ==
  LET name == PklName("hold_out", cv_repetition) IN
  IF files[name] # <<>>
  THEN [raised |-> FALSE, existed |-> TRUE, loaded |-> files[name],
        split |-> files[name], mcp |-> <<>>, files |-> files, wrote |-> {}]
  ELSE LET r == make_cv_partition(files, get_y(input_data), cv_strategy,
                                  cv_repetition, seed, rnd) IN
       [raised |-> r.raised, existed |-> FALSE, loaded |-> <<>>,
        split |-> r.split,
        mcp |-> << [y |-> get_y(input_data), cv_strategy |-> cv_strategy,
                    cv_repetition |-> cv_repetition, seed |-> seed,
                    raised |-> r.raised, result |-> r.split] >>,
        files |-> r.files, wrote |-> r.wrote]

\* the result of one call: what it did and the directory it leaves behind
Outcome(ds, wf, raised, summarised) ==
  [existed |-> ds.existed, loaded |-> ds.loaded, mcp |-> ds.mcp,
   split_index |-> ds.split, wf |-> wf, raised |-> raised,
   files |-> ds.files, wrote |-> ds.wrote, summarised |-> summarised]

HoldOutKind(entry) ==
  CASE entry = "classification_roi" -> "RB_RepeatedHoldOut"
    [] entry = "classification_voxel" -> "VB_RepeatedHoldOut"
    [] entry = "classification_roi_feature_selection" -> "RB_RepeatedHoldOut_FS"
    [] OTHER -> "VB_RepeatedHoldOut_FS"

KFoldKind(entry) ==
  IF entry = "classification_roi" THEN "RB_KFold" ELSE "VB_KFold"

\* a dispatch whose last branch falls back to the hold-out workflow
DispatchFallBack(entry, ds, input_data, cv_repetition, cv_strategy) ==
  IF ds.raised
  THEN Outcome(ds, <<>>, "make_cv_partition", FALSE)
  ELSE IF cv_strategy = "k_fold"
  THEN Outcome(ds, << Workflow(KFoldKind(entry), input_data, ds.split,
                               cv_repetition) >>, "", TRUE)
  ELSE Outcome(ds, << Workflow(HoldOutKind(entry), input_data, ds.split,
                               cv_repetition) >>, "", TRUE)

\* lines 54-63 (and 153-162): dispatch of the plain entry points
Dispatch(entry, ds, input_data, cv_repetition, cv_strategy) ==
  IF ds.raised
  THEN Outcome(ds, <<>>, "make_cv_partition", FALSE)
  ELSE IF cv_strategy = "hold_out"
  THEN Outcome(ds, << Workflow(HoldOutKind(entry), input_data, ds.split,
                               cv_repetition) >>, "", TRUE)
  ELSE IF cv_strategy = "k_fold"
  THEN Outcome(ds, << Workflow(KFoldKind(entry), input_data, ds.split,
                               cv_repetition) >>, "", TRUE)
  ELSE Outcome(ds, <<>>, "CV methods have not been implemented", FALSE)

\* lines 105-113 (and 204-212): dispatch of the feature-selection variants
DispatchFS(entry, ds, input_data, cv_repetition, cv_strategy) ==
  IF ds.raised
  THEN Outcome(ds, <<>>, "make_cv_partition", FALSE)
  ELSE IF cv_strategy = "hold_out"
  THEN Outcome(ds, << Workflow(HoldOutKind(entry), input_data, ds.split,
                               cv_repetition) >>, "", TRUE)
  ELSE IF cv_strategy = "k_fold"
  THEN Outcome(ds, <<>>, "only supported for repeated hold-out CV", FALSE)
  ELSE Outcome(ds, <<>>, "CV methods have not been implemented", FALSE)

classification_roi(files, feature_tsv, cv_repetition, cv_strategy, seed, rnd) ==
  LET input_data == RB_Input(feature_tsv) IN
  Dispatch("classification_roi",
           DataSplit(files, input_data, cv_repetition, cv_strategy, seed,
                       rnd),
           input_data, cv_repetition, cv_strategy)

classification_roi_feature_selection(files, feature_tsv, cv_repetition, cv_strategy, seed, rnd) ==
  LET input_data == RB_Input(feature_tsv) IN
  DispatchFS("classification_roi_feature_selection",
             DataSplit(files, input_data, cv_repetition, cv_strategy, seed,
                       rnd),
             input_data, cv_repetition, cv_strategy)

classification_voxel(files, participant_tsv, cv_repetition, cv_strategy, seed, rnd) ==
  LET input_data == VB_Input(participant_tsv) IN
  Dispatch("classification_voxel",
           DataSplit(files, input_data, cv_repetition, cv_strategy, seed,
                       rnd),
           input_data, cv_repetition, cv_strategy)

classification_voxel_feature_selection(files, feature_tsv, cv_repetition, cv_strategy, seed, rnd) ==
  LET input_data == VB_Input(feature_tsv) IN
  DispatchFS("classification_voxel_feature_selection",
             DataSplit(files, input_data, cv_repetition, cv_strategy, seed,
                       rnd),
             input_data, cv_repetition, cv_strategy)

\* ------------------------------------------------------------------ state
NoCall ==
  [entry |-> "none", feature_tsv |-> <<>>, output_dir |-> <<>>,
   cv_repetition |-> 0, cv_strategy |-> "", seed |-> NoSeed,
   existed |-> FALSE, loaded |-> <<>>, mcp |-> <<>>, split_index |-> <<>>,
   wf |-> <<>>, raised |-> "", wrote |-> {}, summarised |-> FALSE]

Idle ==
  [pc |-> "idle", participant_tsv |-> <<>>, opnmf_dir |-> "",
   components_list |-> <<>>, cv_repetition |-> 0, cv_strategy |-> "",
   voting_method |-> "", idx |-> 0, log |-> <<>>, err |-> "",
   summary0 |-> {}]

EmptyDir == [n \in PklNames |-> <<>>]

InitSingle ==
  /\ pkl = [d \in OutputDirs |-> EmptyDir]
  /\ summary = {}
  /\ dirs = {}
  /\ inter = [i \in Scales |-> <<>>]
  /\ last = NoCall
  /\ ncalls = 0
  /\ ms = Idle

\* one call of an entry point: r is the Outcome it computed on output_dir
Called(entry, feature_tsv, output_dir, cv_repetition, cv_strategy, seed, r) ==
  /\ ncalls < MaxCalls
  /\ ncalls' = ncalls + 1
  /\ pkl' = [pkl EXCEPT ![output_dir] = r.files]
  /\ summary' = IF r.summarised THEN summary \cup {output_dir} ELSE summary
  /\ last' = [entry |-> entry, feature_tsv |-> feature_tsv,
              output_dir |-> output_dir, cv_repetition |-> cv_repetition,
              cv_strategy |-> cv_strategy, seed |-> seed,
              existed |-> r.existed, loaded |-> r.loaded, mcp |-> r.mcp,
              split_index |-> r.split_index, wf |-> r.wf,
              raised |-> r.raised, wrote |-> r.wrote,
              summarised |-> r.summarised]
  /\ UNCHANGED <<dirs, inter, ms>>

CallRoi ==
  \E t \in FeatureTables, d \in CallDirs, n \in Reps, s \in Strategies,
     seed \in Seeds :
    \E rnd \in Entropy(seed) :
      Called("classification_roi", t, d, n, s, seed,
             classification_roi(pkl[d], t, n, s, seed, rnd))

CallRoiFS ==
  \E t \in FeatureTables, d \in CallDirs, n \in Reps, s \in Strategies,
     seed \in Seeds :
    \E rnd \in Entropy(seed) :
      Called("classification_roi_feature_selection", t, d, n, s, seed,
             classification_roi_feature_selection(pkl[d], t, n, s, seed, rnd))

CallVoxel ==
  \E t \in FeatureTables, d \in CallDirs, n \in Reps, s \in Strategies,
     seed \in Seeds :
    \E rnd \in Entropy(seed) :
      Called("classification_voxel", t, d, n, s, seed,
             classification_voxel(pkl[d], t, n, s, seed, rnd))

CallVoxelFS ==
  \E t \in FeatureTables, d \in CallDirs, n \in Reps, s \in Strategies,
     seed \in Seeds :
    \E rnd \in Entropy(seed) :
      Called("classification_voxel_feature_selection", t, d, n, s, seed,
             classification_voxel_feature_selection(pkl[d], t, n, s, seed, rnd))

NextSingle == CallRoi \/ CallRoiFS \/ CallVoxel \/ CallVoxelFS

SpecSingle == InitSingle /\ [][NextSingle]_vars

\* ------------------------------------------------- multi-scale orchestrator
IntermediateDir == <<"intermediate", 0>>
EnsembleDir == <<"ensemble", 0>>
AllDirs == {IntermediateDir, EnsembleDir} \cup OutputDirs

PRow(p, d) == [participant_id |-> p, diagnosis |-> d]

\* the participant tables a run is called with
ParticipantTables ==
  { << PRow(1, 0), PRow(2, 1), PRow(3, 1) >>,
    << PRow(2, 1), PRow(1, 0) >> }

NaN == 0 - 1

CRow(p, f) == [participant_id |-> p, path |-> "nii", feat |-> f]

CTable(i, ids) == [k \in 1..Len(ids) |-> CRow(ids[k], 100 * i + 10 * k + ids[k])]

OpnmfDirs == {"full", "short", "dup"}

\* pd.read_csv(<opnmf_dir>/NMF/component_<i>/atlas_components_signal.tsv)
OpnmfTable(opnmf_dir, i) ==
  CASE opnmf_dir = "full" -> CTable(i, <<3, 1, 2>>)
    [] opnmf_dir = "short" ->
         IF i = 2 THEN CTable(i, <<1, 2>>) ELSE CTable(i, <<3, 1, 2>>)
    [] OTHER -> CTable(i, <<1, 1, 2>>)

Column(df, c) == [k \in 1..Len(df) |-> df[k][c]]

Values(seq) == {seq[k] : k \in 1..Len(seq)}

\* all sequences over S of length at most n
RECURSIVE SeqsUpTo(_, _)
SeqsUpTo(S, n) ==
  IF n = 0 THEN {<<>>}
  ELSE LET shorter == SeqsUpTo(S, n - 1) IN
       shorter \cup {Append(q, x) : q \in shorter, x \in S}

ComponentLists == SeqsUpTo(Scales, MaxLen)

\* os.path.exists(*args): one path argument, anything else is a TypeError
os_path_exists(args, existing) ==
  IF Len(args) # 1
  THEN [raised |-> TRUE, value |-> FALSE]
  ELSE [raised |-> FALSE, value |-> args[1] \in existing]

\* `if not os.path.exists(d): os.makedirs(d)`
MakeDirs(d, st) ==
  IF os_path_exists(<<d>>, st.dirs).value
  THEN st
  ELSE [st EXCEPT !.dirs = @ \cup {d},
                  !.log = Append(@, [ev |-> "makedirs", arg |-> d])]

\* df.loc[df['participant_id'].isin(df_participant['participant_id'])]
FilterIsin(df, df_participant) ==
  SelectSeq(df, LAMBDA row :
              row.participant_id \in Values(Column(df_participant, "participant_id")))

\* a table left in the row order of the component file
ReindexSkipped(df, target) ==
  [raised |-> FALSE, df |-> df]

\* df.set_index('participant_id').reindex(index=target).reset_index()
Reindex(df, target) ==
  LET ids == Column(df, "participant_id") IN
  IF ids = target
  THEN [raised |-> FALSE, df |-> df]
  ELSE IF Cardinality(Values(ids)) # Len(ids)
  THEN [raised |-> TRUE, df |-> <<>>]
  ELSE [raised |-> FALSE,
        df |-> [k \in 1..Len(target) |->
                  IF target[k] \in Values(ids)
                  THEN df[CHOOSE j \in 1..Len(df) :
                            df[j].participant_id = target[k]]
                  ELSE [participant_id |-> target[k], path |-> "NaN",
                        feat |-> NaN]]]

\* lines 279-281: the path column becomes the participant table's diagnosis
WithDiagnosis(df, df_participant) ==
  [k \in 1..Len(df) |->
     Row(df[k].participant_id, df_participant[k].diagnosis, df[k].feat)]

Event(ev, i) == [ev |-> ev, arg |-> CompDir(i)]

\* the iteration for scale i ends by raising err
Raise(st, i, err) ==
  [st EXCEPT !.err = err, !.log = Append(@, Event("raise", i))]

\* line 288: the test that guards the per-scale classification
SummaryTest(component_output_dir, existing) ==
  os_path_exists(<<component_output_dir, "classification", "mean_results.tsv">>,
                 existing)

\* lines 288-292 for scale i, once the intermediate table is written
ClassifyScale(i, r, st, opnmf_component) ==
  LET t == SummaryTest(CompDir(i), st.summary) IN
  IF t.raised
  THEN Raise(st, i, "TypeError")
  ELSE IF t.value
  THEN [st EXCEPT !.log = Append(@, Event("cached", i))]
  ELSE LET c == classification_roi(st.pkl[CompDir(i)], opnmf_component,
                                   r.cv_repetition, r.cv_strategy, 0, 0)
           st4 == [st EXCEPT !.pkl[CompDir(i)] = c.files,
                             !.summary = IF c.summarised
                                         THEN @ \cup {CompDir(i)} ELSE @,
                             !.log = Append(@, Event("classification_roi", i))]
       IN IF c.raised # "" THEN Raise(st4, i, c.raised) ELSE st4

\* lines 262-292: one iteration of the loop, for scale i of run r
ScaleBody(i, r, st0) ==
  LET st1 == MakeDirs(CompDir(i), st0)
      df_opnmf == FilterIsin(OpnmfTable(r.opnmf_dir, i), r.participant_tsv)
      st2 == [st1 EXCEPT !.log = Append(@, Event("read_csv", i))]
  IN
  IF Len(r.participant_tsv) # Len(df_opnmf)
  THEN Raise(st2, i, "dimension")
  ELSE LET re == Reindex(df_opnmf, Column(r.participant_tsv, "participant_id")) IN
       IF re.raised
       THEN Raise(st2, i, "ValueError")
       ELSE LET opnmf_component == WithDiagnosis(re.df, r.participant_tsv)
                st3 == [st2 EXCEPT !.inter[i] = opnmf_component,
                                   !.log = Append(@, Event("to_csv", i))]
            IN ClassifyScale(i, r, st3, opnmf_component)

\* an orchestrator that swallows a scale's exception and goes on
AfterScaleSwallow(err, idx, n) ==
  [pc |-> "loop", idx |-> idx + 1]

\* where the run goes after an iteration that ended with error err
AfterScale(err, idx, n) ==
  IF err # "" THEN [pc |-> "raised", idx |-> idx]
  ELSE [pc |-> "loop", idx |-> idx + 1]

\* lines 295-305: the aggregator chosen for voting_method
Aggregator(voting_method) ==
  CASE voting_method = "soft_voting" -> "soft_majority_voting"
    [] voting_method = "hard_voting" -> "hard_majority_voting"
    [] voting_method = "consensus_voting" -> "consensus_voting"
    [] OTHER -> ""

Store(r) == [dirs |-> dirs, inter |-> inter, pkl |-> pkl, summary |-> summary,
             log |-> r.log, err |-> ""]

Commit(st) ==
  /\ dirs' = st.dirs
  /\ inter' = st.inter
  /\ pkl' = st.pkl
  /\ summary' = st.summary

\* files an earlier run may have left in a per-scale output directory
StalePartition ==
  Partition(<<1, 0, 1>>, "hold_out", 2, 101)

InitialPkl ==
  { [d \in OutputDirs |-> EmptyDir],
    [d \in OutputDirs |->
       IF d = CompDir(2)
       THEN [EmptyDir EXCEPT ![PklName("hold_out", 2)] = <<StalePartition>>]
       ELSE EmptyDir] }

Init ==
  /\ pkl \in InitialPkl
  /\ summary \in SUBSET OutputDirs
  /\ dirs \in {summary, AllDirs}
  /\ inter = [i \in Scales |-> <<>>]
  /\ last = NoCall
  /\ ncalls = 0
  /\ ms = Idle

\* lines 243-258: the call, up to the first iteration of the loop
MsCall ==
  /\ ms.pc = "idle"
  /\ \E p \in ParticipantTables, o \in OpnmfDirs, cl \in ComponentLists,
        n \in Reps, s \in Strategies, v \in VotingMethods :
       LET r == [pc |-> "loop", participant_tsv |-> p, opnmf_dir |-> o,
                 components_list |-> cl, cv_repetition |-> n,
                 cv_strategy |-> s, voting_method |-> v, idx |-> 1,
                 log |-> <<>>, err |-> "", summary0 |-> summary]
       IN
       IF s # "hold_out"
       THEN /\ ms' = [r EXCEPT !.pc = "raised", !.err = "Only support hold-out"]
            /\ UNCHANGED <<dirs, inter, pkl, summary>>
       ELSE LET st == MakeDirs(EnsembleDir,
                        MakeDirs(IntermediateDir,
                          [Store(r) EXCEPT !.log =
                             << [ev |-> "read_csv", arg |-> <<"participant", 0>>] >>]))
            IN /\ ms' = [r EXCEPT !.log = st.log]
               /\ Commit(st)
  /\ UNCHANGED <<last, ncalls>>

\* lines 261-292: the next scale of components_list
MsScale ==
  /\ ms.pc = "loop"
  /\ ms.idx <= Len(ms.components_list)
  /\ LET st == ScaleBody(ms.components_list[ms.idx], ms, Store(ms))
         nx == AfterScale(st.err, ms.idx, Len(ms.components_list))
     IN /\ ms' = [ms EXCEPT !.pc = nx.pc, !.idx = nx.idx, !.log = st.log,
                            !.err = st.err]
        /\ Commit(st)
  /\ UNCHANGED <<last, ncalls>>

\* lines 294-307: the vote, once the loop is over
MsVote ==
  /\ ms.pc = "loop"
  /\ ms.idx > Len(ms.components_list)
  /\ IF Aggregator(ms.voting_method) # ""
     THEN ms' = [ms EXCEPT !.pc = "done",
                           !.log = Append(@, [ev |-> Aggregator(ms.voting_method),
                                              arg |-> EnsembleDir])]
     ELSE ms' = [ms EXCEPT !.pc = "raised", !.err = "Method not implemented yet"]
  /\ UNCHANGED <<dirs, inter, pkl, summary, last, ncalls>>

Next == MsCall \/ MsScale \/ MsVote

Spec == Init /\ [][Next]_vars

\* ------------------------------------------- properties of the orchestrator
Aggregators == {"soft_majority_voting", "hard_majority_voting", "consensus_voting"}

\* the positions of the log at which the run invoked an aggregator
VoteAt == {k \in 1..Len(ms.log) : ms.log[k].ev \in Aggregators}

\* the scales whose processing ended normally before position k, in order
RECURSIVE ProcessedBefore(_)
ProcessedBefore(k) ==
  IF k <= 1 THEN <<>>
  ELSE LET e == ms.log[k - 1]
           done == e.ev = "cached"
                   \/ (e.ev = "classification_roi"
                       /\ ~(k <= Len(ms.log) /\ ms.log[k].ev = "raise"))
       IN IF done THEN Append(ProcessedBefore(k - 1), e.arg)
          ELSE ProcessedBefore(k - 1)

ListDirs == [k \in 1..Len(ms.components_list) |-> CompDir(ms.components_list[k])]

\* whether the summary artifact of the scale written at position k of the log
\* existed when the run reached it
ExistedWhenReached(k) ==
  \/ ms.log[k].arg \in ms.summary0
  \/ \E j \in 1..(k - 1) : /\ ms.log[j].ev = "classification_roi"
                           /\ ms.log[j].arg = ms.log[k].arg

\* C1: every scale the loop reaches (its intermediate table written) is either
\* skipped, when its mean_results.tsv existed, or classified by exactly one
\* call of classification_roi, when it did not.
C1_SkipCachedElseClassifyOnce ==
  \A k \in 1..Len(ms.log) :
    ms.log[k].ev = "to_csv" =>
      /\ k < Len(ms.log)
      /\ ms.log[k + 1].arg = ms.log[k].arg
      /\ ms.log[k + 1].ev =
           IF ExistedWhenReached(k) THEN "cached" ELSE "classification_roi"

\* the call C2 is about: hold-out, a non-empty list, matching row counts and
\* a supported voting method
ValidRun ==
  /\ ms.pc # "idle"
  /\ ms.cv_strategy = "hold_out"
  /\ ms.components_list # <<>>
  /\ \A k \in 1..Len(ms.components_list) :
       Len(FilterIsin(OpnmfTable(ms.opnmf_dir, ms.components_list[k]),
                      ms.participant_tsv)) = Len(ms.participant_tsv)
  /\ Aggregator(ms.voting_method) # ""

\* C2: a valid run never raises, and once it is over every scale has been
\* processed in list order and exactly the aggregator of voting_method ran.
C2_ValidRunVotesOnce ==
  ValidRun =>
    /\ ms.pc # "raised"
    /\ ms.pc = "done" =>
         /\ Cardinality(VoteAt) = 1
         /\ \A k \in VoteAt : /\ ms.log[k].ev = Aggregator(ms.voting_method)
                              /\ ProcessedBefore(k) = ListDirs

\* C3: an aggregator is invoked only after every scale of components_list has
\* been processed, and never after the processing of a scale has raised.
C3_VoteAfterAllScales ==
  \A k \in VoteAt :
    /\ ProcessedBefore(k) = ListDirs
    /\ \A j \in 1..k : ms.log[j].ev # "raise"

\* a scale raised in a run whose voting method has an aggregator
C3_Witness ==
  /\ ms.pc = "raised"
  /\ ms.err \in {"TypeError", "dimension", "ValueError"}
  /\ Aggregator(ms.voting_method) # ""
  /\ VoteAt = {}

\* C4: with an unsupported voting_method the call creates no directory, reads
\* and writes no per-scale table and classifies no scale.
C4_BadVotingFailsFast ==
  (ms.pc # "idle" /\ Aggregator(ms.voting_method) = "") =>
    \A k \in 1..Len(ms.log) :
      ms.log[k].ev \notin {"makedirs", "to_csv", "classification_roi"}
      /\ ~(ms.log[k].ev = "read_csv" /\ ms.log[k].arg \in OutputDirs)

\* C9: when the row-count check fails, the run has created no directory,
\* written no intermediate table and classified no scale.
C9_MismatchBeforeOutput ==
  (ms.pc = "raised" /\ ms.err = "dimension") =>
    \A k \in 1..Len(ms.log) :
      ms.log[k].ev \notin {"makedirs", "to_csv", "classification_roi"}

\* ------------------------------------- properties of the single-scale calls
FSEntries == {"classification_roi_feature_selection",
              "classification_voxel_feature_selection"}

PlainEntries == {"classification_roi", "classification_voxel"}

RepeatedHoldOutKinds == {"RB_RepeatedHoldOut", "VB_RepeatedHoldOut",
                         "RB_RepeatedHoldOut_FS", "VB_RepeatedHoldOut_FS"}

KFoldKinds == {"RB_KFold", "VB_KFold"}

\* C5: a feature-selection entry point called with k_fold raises the
\* unsupported-combination error without having called make_cv_partition,
\* loaded a persisted partition or written anything to output_dir.
C5_KFoldSelectionFailsFast ==
  (last.entry \in FSEntries /\ last.cv_strategy = "k_fold") =>
    /\ last.raised = "only supported for repeated hold-out CV"
    /\ last.mcp = <<>>
    /\ last.loaded = <<>>
    /\ last.wrote = {}

\* C6: a partition that a call loads from output_dir and hands to its
\* workflow was persisted for the cv_strategy of that call.
C6_LoadedPartitionOfSameStrategy ==
  (last.loaded # <<>> /\ last.wf # <<>>) =>
    /\ last.loaded[1].rep = last.cv_repetition
    /\ last.loaded[1].strategy = last.cv_strategy

\* C7: a call whose output_dir holds the persisted partition file of its
\* cv_repetition loads it as split_index and does not call make_cv_partition;
\* otherwise it calls make_cv_partition once, with its own labels,
\* cv_strategy, cv_repetition and seed, and takes the result as split_index.
C7_LoadElseMakeOnce ==
  [][ncalls' # ncalls =>
       LET c == last'
           before == pkl[c.output_dir][PklName("hold_out", c.cv_repetition)]
       IN IF before # <<>>
          THEN /\ c.loaded = before
               /\ c.split_index = before
               /\ c.mcp = <<>>
          ELSE /\ c.loaded = <<>>
               /\ Len(c.mcp) = 1
               /\ c.mcp[1].y = Column(c.feature_tsv, "diagnosis")
               /\ c.mcp[1].cv_strategy = c.cv_strategy
               /\ c.mcp[1].cv_repetition = c.cv_repetition
               /\ c.mcp[1].seed = c.seed
               /\ ~c.mcp[1].raised => c.split_index = c.mcp[1].result]_vars

\* a call found the persisted file and used it without making a partition
C7_Witness ==
  /\ last.entry # "none"
  /\ last.existed
  /\ last.split_index = last.loaded
  /\ last.mcp = <<>>

\* the partition the last call obtained, loaded or made
Obtained ==
  IF last.loaded # <<>> THEN last.loaded ELSE last.mcp[1].result

\* C10: an unsupported cv_strategy ends every entry point by raising with no
\* workflow constructed; hold_out runs one repeated-hold-out workflow with
\* n_iterations = cv_repetition, k_fold one k-fold workflow in the plain
\* entry points, each on the split_index obtained in the call.
C10_DispatchByStrategy ==
  last.entry # "none" =>
    /\ last.cv_strategy \notin {"hold_out", "k_fold"} =>
         (last.raised # "" /\ last.wf = <<>>)
    /\ last.cv_strategy = "hold_out" =>
         /\ last.raised = ""
         /\ Len(last.wf) = 1
         /\ last.wf[1].kind \in RepeatedHoldOutKinds
         /\ last.wf[1].n = last.cv_repetition
         /\ last.wf[1].split_index = Obtained
    /\ (last.cv_strategy = "k_fold" /\ last.entry \in PlainEntries) =>
         /\ last.raised = ""
         /\ Len(last.wf) = 1
         /\ last.wf[1].kind \in KFoldKinds
         /\ last.wf[1].split_index = Obtained

\* an unsupported strategy raised although a persisted partition was loaded
C10_Witness ==
  /\ last.cv_strategy = "leave_one_out"
  /\ last.existed
  /\ last.raised # ""
  /\ last.wf = <<>>

\* ------------------------------------ properties of the intermediate table
\* the component table read for scale i in the current run
ComponentTable(i) == OpnmfTable(ms.opnmf_dir, i)

UniqueIds(df) ==
  Cardinality(Values(Column(df, "participant_id"))) = Len(df)

\* C11: the intermediate table written for a scale whose component table has
\* unique participant ids has one row per participant-table row, in that
\* order: row k carries the id and the diagnosis of participant row k and the
\* features the component table holds for that id.
C11_IntermediateAligned ==
  \A i \in Scales :
    (inter[i] # <<>> /\ UniqueIds(ComponentTable(i))) =>
      /\ Len(inter[i]) = Len(ms.participant_tsv)
      /\ \A k \in 1..Len(inter[i]) :
           /\ inter[i][k].participant_id = ms.participant_tsv[k].participant_id
           /\ inter[i][k].diagnosis = ms.participant_tsv[k].diagnosis
           /\ \E j \in 1..Len(ComponentTable(i)) :
                /\ ComponentTable(i)[j].participant_id =
                     ms.participant_tsv[k].participant_id
                /\ ComponentTable(i)[j].feat = inter[i][k].feat

\* a table was written whose rows had to be reordered, and one whose
\* component file held a row of a subject outside the participant table
C11_Witness ==
  \E i \in Scales :
    /\ inter[i] # <<>>
    /\ UniqueIds(ComponentTable(i))
    /\ Len(ComponentTable(i)) > Len(ms.participant_tsv)
    /\ Column(inter[i], "participant_id") #
         Column(FilterIsin(ComponentTable(i), ms.participant_tsv),
                "participant_id")

====
